---------------------------- MODULE Spec2Model ----------------------------
(***************************************************************************)
(* CourseOutlinePlanner: the calendar of the frontend and the page (App)   *)
(* that uploads a syllabus and syncs the parsed course to Google.          *)
(*                                                                         *)
(* CalendarView (components/CalendarView.tsx) holds currentDate and view,  *)
(* maps the course's backend events to CalendarEvents and renders either   *)
(* CalendarGrid (month) or CalendarWeekView (week).  Both are built on     *)
(* date-fns and on the JavaScript Date.                                    *)
(*                                                                         *)
(* A Date is its time value: seconds since 1970-01-01T00:00:00Z (the       *)
(* backend sends ISO strings with whole seconds), or NaN for an Invalid    *)
(* Date.  Local time is the time value plus the offset tz of the zone the  *)
(* browser runs in (a fixed-offset zone).                                  *)
(*                                                                         *)
(* Spec is the calendar with the clock held still, SpecClock the calendar  *)
(* while the clock runs, SpecApp the page of App.tsx.                      *)
(***************************************************************************)
EXTENDS Integers, Sequences, FiniteSets

VARIABLES
    tz,            \* offset of the browser's time zone, seconds east of UTC
    now,           \* the clock: the time value Date.now() gives
    course,        \* prop course of CalendarView: the BackendEvent list
    currentDate,   \* useState<Date>(startOfToday())
    view,          \* useState<CalendarViewType>("week")
    selectedEvent, \* useState<CalendarEvent | null>(null)
    rendered       \* what the last render of CalendarView produced

calendarVars == <<tz, now, course, currentDate, view, selectedEvent, rendered>>

\* App.tsx
VARIABLES
    inputFiles,              \* e.target.files of the last change of a file input
    selectedFiles,           \* useState<File[]>([])
    appCourse,               \* useState<BackendCourse | null>(null), App's `course`
    loading,                 \* useState(false)
    error,                   \* useState<string | null>(null)
    isSyncing,               \* useState(false)
    syncMessage,             \* useState<string | null>(null)
    authStatus,              \* useState<AuthStatus>({ connected: false })
    calendarRefreshKey,      \* useState(0)
    googleCalendarEmbedUrl,  \* useState<string>(DEMO_CAL_URL)
    authLoad,                \* the getAuthStatus() call of the mount effect
    uploads,                 \* uploadSyllabus calls awaiting their response
    syncs,                   \* syncCourseToGoogle calls awaiting their response
    disconnects              \* disconnectGoogle calls awaiting their response

appVars ==
    <<inputFiles, selectedFiles, appCourse, loading, error, isSyncing, syncMessage, authStatus,
      calendarRefreshKey, googleCalendarEmbedUrl, authLoad, uploads, syncs, disconnects>>

\* The App that hands its course to CalendarView (FileUpload, handleFileSelect).
\* Its course, loading and error are the variables course, loading and error
\* above, and its uploadSyllabus calls are in uploads.
VARIABLES
    selectedFile,            \* useState<File | null>(null)
    selectedFileName         \* FileUpload: useState<string | null>(null)

plannerVars == <<selectedFile, selectedFileName>>

\* CalendarAssistant.tsx; its loading and error are chatLoading and chatError
VARIABLES
    messages,                \* useState<ChatMessage[]>([])
    input,                   \* useState("")
    chatLoading,             \* useState(false)
    chatError,               \* useState<string | null>(null)
    chats                    \* chatWithCalendar calls awaiting their response

chatVars == <<messages, input, chatLoading, chatError, chats>>

vars == <<calendarVars, appVars, plannerVars, chatVars>>

-----------------------------------------------------------------------------
(* JavaScript numbers that may be NaN, and Dates that may be invalid.      *)

NaN == [nan |-> TRUE]
Num(v) == [nan |-> FALSE, v |-> v]
IsNaN(x) == x.nan

\* Math.trunc(a / b) for b > 0: rounds toward zero (\div rounds down)
TruncDiv(a, b) == IF a >= 0 THEN a \div b ELSE -((-a) \div b)

Max(a, b) == IF a >= b THEN a ELSE b

-----------------------------------------------------------------------------
(* The proleptic Gregorian calendar of the Date object (ECMAScript MakeDay *)
(* and DateFromTime), as day numbers since 1970-01-01.                     *)

DaysFromCivil(y, m, d) ==
    LET yy  == IF m <= 2 THEN y - 1 ELSE y
        era == yy \div 400
        yoe == yy - era * 400
        mp  == IF m > 2 THEN m - 3 ELSE m + 9
        doy == (153 * mp + 2) \div 5 + d - 1
        doe == yoe * 365 + yoe \div 4 - yoe \div 100 + doy
    IN  era * 146097 + doe - 719468

CivilFromDays(z) ==
    LET zz  == z + 719468
        era == zz \div 146097
        doe == zz - era * 146097
        yoe == (doe - doe \div 1460 + doe \div 36524 - doe \div 146096) \div 365
        doy == doe - (365 * yoe + yoe \div 4 - yoe \div 100)
        mp  == (5 * doy + 2) \div 153
        d   == doy - (153 * mp + 2) \div 5 + 1
        m   == IF mp < 10 THEN mp + 3 ELSE mp - 9
        y   == yoe + era * 400 + (IF m <= 2 THEN 1 ELSE 0)
    IN  [y |-> y, m |-> m, d |-> d]

SecondsPerDay == 24 * 60 * 60

\* the local calendar day (a day number) a time value falls on
LocalDay(t) == (t + tz) \div SecondsPerDay

\* the time value of local midnight of a day number
LocalMidnight(day) == day * SecondsPerDay - tz

\* Date.prototype.getDay(): 0 = Sunday ... 6 = Saturday (1970-01-01: Thursday)
getDay(t) == (LocalDay(t) + 4) % 7

\* getFullYear / getMonth (1-based here) / getDate in local time
LocalCivil(t) == CivilFromDays(LocalDay(t))


-----------------------------------------------------------------------------
(* date-fns, with its default options (weekStartsOn = 0, Sunday).  Every   *)
(* function gives an Invalid Date (or NaN, or false) for an Invalid Date.  *)

StartOfDayTime(t) == LocalMidnight(LocalDay(t))
startOfDay(date) == IF IsNaN(date) THEN NaN ELSE Num(StartOfDayTime(date.v))

StartOfMonthTime(t) ==
    LET c == LocalCivil(t) IN LocalMidnight(DaysFromCivil(c.y, c.m, 1))
startOfMonth(date) == IF IsNaN(date) THEN NaN ELSE Num(StartOfMonthTime(date.v))

\* the day number of the 1st of the month after month m of year y
FirstOfNextMonth(y, m) ==
    IF m = 12 THEN DaysFromCivil(y + 1, 1, 1) ELSE DaysFromCivil(y, m + 1, 1)

\* setFullYear(year, month + 1, 0); setHours(23, 59, 59, 999): the last
\* instant of the month, here its last second
EndOfMonthTime(t) ==
    LET c == LocalCivil(t) IN LocalMidnight(FirstOfNextMonth(c.y, c.m)) - 1
endOfMonth(date) == IF IsNaN(date) THEN NaN ELSE Num(EndOfMonthTime(date.v))

\* mutant: the week taken to start on Monday (weekStartsOn = 1)
StartOfWeekTime_Monday(t) == LocalMidnight(LocalDay(t) - ((getDay(t) + 6) % 7))

\* diff = (day < weekStartsOn ? 7 : 0) + day - weekStartsOn, weekStartsOn = 0
StartOfWeekTime(t) == LocalMidnight(LocalDay(t) - getDay(t))
startOfWeek(date) == IF IsNaN(date) THEN NaN ELSE Num(StartOfWeekTime(date.v))

\* mutant: the week taken to end on Sunday (weekStartsOn = 1)
EndOfWeekTime_Sunday(t) == LocalMidnight(LocalDay(t) + ((7 - getDay(t)) % 7) + 1) - 1

\* diff = (day < weekStartsOn ? -7 : 0) + 6 - (day - weekStartsOn);
\* setHours(23, 59, 59, 999)
EndOfWeekTime(t) == LocalMidnight(LocalDay(t) + (6 - getDay(t)) + 1) - 1
endOfWeek(date) == IF IsNaN(date) THEN NaN ELSE Num(EndOfWeekTime(date.v))

\* the loop of eachDayOfInterval: push the local midnight, setDate(+1),
\* while the midnight is not after the interval's end
RECURSIVE EachDayFrom(_, _)
EachDayFrom(day, endTime) ==
    IF LocalMidnight(day) <= endTime
    THEN <<Num(LocalMidnight(day))>> \o EachDayFrom(day + 1, endTime)
    ELSE <<>>

eachDayOfInterval(start, end) == EachDayFrom(LocalDay(start.v), end.v)

\* mutant: only the day of the month is compared (getDate)
isSameDay_DateOnly(dateLeft, dateRight) ==
    /\ ~IsNaN(dateLeft)
    /\ ~IsNaN(dateRight)
    /\ LocalCivil(dateLeft.v).d = LocalCivil(dateRight.v).d

\* +startOfDay(dateLeft) === +startOfDay(dateRight); NaN === NaN is false
isSameDay(dateLeft, dateRight) ==
    /\ ~IsNaN(dateLeft)
    /\ ~IsNaN(dateRight)
    /\ startOfDay(dateLeft) = startOfDay(dateRight)

\* mutant: only the years are compared
isSameMonth_YearOnly(dateLeft, dateRight) ==
    /\ ~IsNaN(dateLeft)
    /\ ~IsNaN(dateRight)
    /\ LocalCivil(dateLeft.v).y = LocalCivil(dateRight.v).y

\* same getFullYear() and same getMonth()
isSameMonth(dateLeft, dateRight) ==
    /\ ~IsNaN(dateLeft)
    /\ ~IsNaN(dateRight)
    /\ LocalCivil(dateLeft.v).y = LocalCivil(dateRight.v).y
    /\ LocalCivil(dateLeft.v).m = LocalCivil(dateRight.v).m

\* mutant: today is the day of the clock in UTC
isToday_UTC(date, clock) ==
    /\ ~IsNaN(date)
    /\ date.v \div SecondsPerDay = clock \div SecondsPerDay

\* isToday reads the clock: isSameDay(date, Date.now())
isToday(date, clock) == isSameDay(date, Num(clock))

startOfToday == startOfDay(Num(now))

\* Math.trunc((dateLeft - dateRight) / MS_PER_MINUTE)
differenceInMinutes(dateLeft, dateRight) ==
    IF IsNaN(dateLeft) \/ IsNaN(dateRight)
    THEN NaN
    ELSE Num(TruncDiv(dateLeft.v - dateRight.v, 60))

\* the same day of the month `amount` months away, or the last day of that
\* month when it has fewer days; the time of day is kept
AddMonthsTime(t, amount) ==
    LET c   == LocalCivil(t)
        mi  == c.y * 12 + (c.m - 1) + amount
        ty  == mi \div 12
        tm  == (mi % 12) + 1
        dim == FirstOfNextMonth(ty, tm) - DaysFromCivil(ty, tm, 1)
        td  == IF c.d >= dim THEN dim ELSE c.d
    IN  LocalMidnight(DaysFromCivil(ty, tm, td)) + (t - StartOfDayTime(t))
\* mutant: setMonth alone, a day the month lacks runs on into the next month
addMonths_Overflow(date, amount) ==
    IF IsNaN(date) THEN NaN
    ELSE LET c  == LocalCivil(date.v)
             mi == c.y * 12 + (c.m - 1) + amount
         IN  Num(LocalMidnight(DaysFromCivil(mi \div 12, (mi % 12) + 1, 1) + c.d - 1)
                 + (date.v - StartOfDayTime(date.v)))

addMonths(date, amount) ==
    IF IsNaN(date) THEN NaN ELSE Num(AddMonthsTime(date.v, amount))

\* addDays(date, amount * 7): setDate(getDate() + days)
addWeeks(date, amount) ==
    IF IsNaN(date) THEN NaN ELSE Num(date.v + amount * 7 * SecondsPerDay)

-----------------------------------------------------------------------------
(* Strings are sequences of characters, so that toLowerCase and includes   *)
(* do what they do in the code.                                            *)

UpperChars == <<"A", "B", "C", "D", "E", "F", "G", "H", "I", "J", "K", "L", "M",
                "N", "O", "P", "Q", "R", "S", "T", "U", "V", "W", "X", "Y", "Z">>
LowerChars == <<"a", "b", "c", "d", "e", "f", "g", "h", "i", "j", "k", "l", "m",
                "n", "o", "p", "q", "r", "s", "t", "u", "v", "w", "x", "y", "z">>

LowerChar(c) ==
    IF \E i \in 1..Len(UpperChars) : UpperChars[i] = c
    THEN LowerChars[CHOOSE i \in 1..Len(UpperChars) : UpperChars[i] = c]
    ELSE c

toLowerCase(s) == [i \in 1..Len(s) |-> LowerChar(s[i])]

\* String.prototype.includes: kw occurs in s as a contiguous substring
includes(s, kw) ==
    \E i \in 0..(Len(s) - Len(kw)) : SubSeq(s, i + 1, i + Len(kw)) = kw

-----------------------------------------------------------------------------
(* The wire format (api.ts, BackendEvent).  start is a string and end is a *)
(* string or null.  A string is an ISO-8601 date-time, with a trailing Z   *)
(* (UTC) or without one (local time), or it is empty, or it is some other  *)
(* text.                                                                   *)

Iso(y, mo, d, h, mi, s, utc) ==
    [kind |-> "iso", y |-> y, mo |-> mo, d |-> d, h |-> h, mi |-> mi, s |-> s,
     utc |-> utc]
NotADate == [kind |-> "text"]
EmptyString == [kind |-> "empty"]
Null == [kind |-> "null"]

\* the truthiness test of `event.end ? ... : ...`
Truthy(str) == str.kind \notin {"null", "empty"}

\* mutant: the trailing Z is ignored and every string is read as local time
NewDate_LocalOnly(str) ==
    IF str.kind = "iso"
    THEN Num(DaysFromCivil(str.y, str.mo, str.d) * SecondsPerDay
             + str.h * 3600 + str.mi * 60 + str.s - tz)
    ELSE NaN

\* new Date(string): Date.parse of the ISO format, NaN for anything else
NewDate(str) ==
    IF str.kind = "iso"
    THEN Num(DaysFromCivil(str.y, str.mo, str.d) * SecondsPerDay
             + str.h * 3600 + str.mi * 60 + str.s
             - (IF str.utc THEN 0 ELSE tz))
    ELSE NaN

\* types/calendar.ts; title, location and courseId are copied unchanged and
\* play no part in the layout
mapBackendEventToCalendarEvent(event) ==
    [id    |-> event.id,
     type  |-> event.type,
     start |-> NewDate(event.start),
     end   |-> IF Truthy(event.end) THEN NewDate(event.end) ELSE NewDate(event.start)]

\* mutant: no class when no keyword matches
getEventColor_NoFallback(type) ==
    LET normalized == toLowerCase(type) IN
    IF \/ includes(normalized, <<"c", "l", "a", "s", "s">>)
       \/ includes(normalized, <<"l", "e", "c", "t", "u", "r", "e">>)
       \/ includes(normalized, <<"l", "a", "b">>)
    THEN "blue"
    ELSE IF \/ includes(normalized, <<"m", "i", "d", "t", "e", "r", "m">>)
            \/ includes(normalized, <<"t", "e", "s", "t">>)
    THEN "orange"
    ELSE IF \/ includes(normalized, <<"f", "i", "n", "a", "l">>)
            \/ includes(normalized, <<"e", "x", "a", "m">>)
    THEN "red"
    ELSE IF \/ includes(normalized, <<"a", "s", "s", "i", "g", "n", "m", "e", "n", "t">>)
            \/ includes(normalized, <<"h", "o", "m", "e", "w", "o", "r", "k">>)
    THEN "purple"
    ELSE IF includes(normalized, <<"q", "u", "i", "z">>)
    THEN "green"
    ELSE ""

\* types/calendar.ts
getEventColor(type) ==
    LET normalized == toLowerCase(type) IN
    IF \/ includes(normalized, <<"c", "l", "a", "s", "s">>)
       \/ includes(normalized, <<"l", "e", "c", "t", "u", "r", "e">>)
       \/ includes(normalized, <<"l", "a", "b">>)
    THEN "blue"
    ELSE IF \/ includes(normalized, <<"m", "i", "d", "t", "e", "r", "m">>)
            \/ includes(normalized, <<"t", "e", "s", "t">>)
    THEN "orange"
    ELSE IF \/ includes(normalized, <<"f", "i", "n", "a", "l">>)
            \/ includes(normalized, <<"e", "x", "a", "m">>)
    THEN "red"
    ELSE IF \/ includes(normalized, <<"a", "s", "s", "i", "g", "n", "m", "e", "n", "t">>)
            \/ includes(normalized, <<"h", "o", "m", "e", "w", "o", "r", "k">>)
    THEN "purple"
    ELSE IF includes(normalized, <<"q", "u", "i", "z">>)
    THEN "green"
    ELSE "gray"

\* components/ParsedEvents.tsx: the badge of the event list
getBadgeClasses(type) ==
    LET lowerType == toLowerCase(type) IN
    IF \/ includes(lowerType, <<"l", "e", "c", "t", "u", "r", "e">>)
       \/ includes(lowerType, <<"c", "l", "a", "s", "s">>)
    THEN "bg-indigo-50 text-indigo-700 border-indigo-100"
    ELSE IF includes(lowerType, <<"l", "a", "b">>)
    THEN "bg-purple-50 text-purple-700 border-purple-100"
    ELSE IF \/ includes(lowerType, <<"m", "i", "d", "t", "e", "r", "m">>)
            \/ includes(lowerType, <<"t", "e", "s", "t">>)
    THEN "bg-orange-50 text-orange-700 border-orange-100"
    ELSE IF \/ includes(lowerType, <<"f", "i", "n", "a", "l">>)
            \/ includes(lowerType, <<"e", "x", "a", "m">>)
    THEN "bg-red-50 text-red-700 border-red-100"
    ELSE IF \/ includes(lowerType, <<"a", "s", "s", "i", "g", "n", "m", "e", "n", "t">>)
            \/ includes(lowerType, <<"p", "r", "o", "j", "e", "c", "t">>)
    THEN "bg-green-50 text-green-700 border-green-100"
    ELSE "bg-gray-100 text-gray-700 border-gray-200"

-----------------------------------------------------------------------------
(* Array helpers.                                                          *)

\* Array.prototype.slice(0, n)
SliceTo(seq, n) == SubSeq(seq, 1, IF Len(seq) < n THEN Len(seq) ELSE n)

-----------------------------------------------------------------------------
(* components/CalendarGrid.tsx: the month grid.                            *)

\* getEventsForDay of both views: events.filter(isSameDay(start, day)),
\* the events that pass in their order
RECURSIVE getEventsForDay(_, _)
getEventsForDay(events, day) ==
    IF events = <<>>
    THEN <<>>
    ELSE (IF isSameDay(Head(events).start, day) THEN <<Head(events)>> ELSE <<>>)
         \o getEventsForDay(Tail(events), day)

\* dayEvents.slice(0, 3) and `dayEvents.length > 3`
MaxPills == 3

\* date-fns format: a RangeError ("Invalid time value") for an Invalid Date
RangeError == [throws |-> TRUE]

\* format(date, "h:mm a"): the hour of the 12-hour clock, the minute, AM or PM
format(date) ==
    IF IsNaN(date)
    THEN RangeError
    ELSE LET seconds == date.v - StartOfDayTime(date.v)
             hour    == seconds \div 3600
         IN  [throws |-> FALSE,
              h  |-> IF hour % 12 = 0 THEN 12 ELSE hour % 12,
              mm |-> (seconds \div 60) % 60,
              a  |-> IF hour < 12 THEN "AM" ELSE "PM"]

Pill(event) ==
    [event |-> event,
     color |-> getEventColor(event.type),
     time  |-> format(event.start)]

\* mutant: the overflow marker counts from the third event on
MonthCell_MarkerFromThree(date, current, events, clock) ==
    LET dayEvents == getEventsForDay(events, date)
        shown     == SliceTo(dayEvents, MaxPills)
    IN
    [date           |-> date,
     isCurrentMonth |-> isSameMonth(date, current),
     isCurrentDay   |-> isToday(date, clock),
     pills          |-> [i \in 1..Len(shown) |-> Pill(shown[i])],
     moreShown      |-> Len(dayEvents) >= MaxPills,
     more           |-> Len(dayEvents) - MaxPills + 1]

MonthCell(date, current, events, clock) ==
    LET dayEvents == getEventsForDay(events, date)
        shown     == SliceTo(dayEvents, MaxPills)
    IN
    [date           |-> date,
     isCurrentMonth |-> isSameMonth(date, current),
     isCurrentDay   |-> isToday(date, clock),
     pills          |-> [i \in 1..Len(shown) |-> Pill(shown[i])],
     moreShown      |-> Len(dayEvents) > MaxPills,
     more           |-> Len(dayEvents) - MaxPills]

MonthDays(date) ==
    LET monthStart    == startOfMonth(date)
        monthEnd      == endOfMonth(date)
        calendarStart == startOfWeek(monthStart)
        calendarEnd   == endOfWeek(monthEnd)
    IN  eachDayOfInterval(calendarStart, calendarEnd)

-----------------------------------------------------------------------------
(* components/CalendarWeekView.tsx: the week view.                         *)

HOUR_HEIGHT == 60

\* Math.max(x, floor) of a number that may be NaN: NaN if x is NaN
MathMax(x, floor) == IF IsNaN(x) THEN NaN ELSE Num(Max(x.v, floor))

\* (minutes / 60) * HOUR_HEIGHT.  HOUR_HEIGHT is a multiple of 60, so the
\* product is a whole number of pixels in exact arithmetic; the rounding of
\* the floating-point quotient (at most one unit in the last place) is left
\* out.
Pixels(minutes) ==
    IF IsNaN(minutes) THEN NaN ELSE Num((minutes.v * HOUR_HEIGHT) \div 60)

MinEventHeight == 30

\* mutant: the offset counts whole hours only
getEventPosition_WholeHours(event) ==
    LET dayStart         == startOfDay(event.start)
        minutesFromStart == differenceInMinutes(event.start, dayStart)
        duration         == differenceInMinutes(event.end, event.start)
    IN  [top    |-> IF IsNaN(minutesFromStart) THEN NaN
                    ELSE Num(TruncDiv(minutesFromStart.v, 60) * HOUR_HEIGHT),
         height |-> MathMax(Pixels(duration), MinEventHeight)]

\* mutant: the height is not clamped
getEventPosition_NoClamp(event) ==
    LET dayStart         == startOfDay(event.start)
        minutesFromStart == differenceInMinutes(event.start, dayStart)
        duration         == differenceInMinutes(event.end, event.start)
    IN  [top    |-> Pixels(minutesFromStart),
         height |-> Pixels(duration)]

\* mutant: the offset is taken on a 12-hour clock
getEventPosition_TwelveHour(event) ==
    LET dayStart         == startOfDay(event.start)
        minutesFromStart == differenceInMinutes(event.start, dayStart)
        duration         == differenceInMinutes(event.end, event.start)
    IN  [top    |-> IF IsNaN(minutesFromStart) THEN NaN
                    ELSE Pixels(Num(minutesFromStart.v % (12 * 60))),
         height |-> MathMax(Pixels(duration), MinEventHeight)]

getEventPosition(event) ==
    LET dayStart         == startOfDay(event.start)
        minutesFromStart == differenceInMinutes(event.start, dayStart)
        duration         == differenceInMinutes(event.end, event.start)
    IN  [top    |-> Pixels(minutesFromStart),
         height |-> MathMax(Pixels(duration), MinEventHeight)]

Block(event) ==
    LET position == getEventPosition(event) IN
    [event  |-> event,
     color  |-> getEventColor(event.type),
     time   |-> format(event.start),
     top    |-> position.top,
     height |-> position.height]

WeekDay(date, events, clock) ==
    LET dayEvents == getEventsForDay(events, date) IN
    [date         |-> date,
     isCurrentDay |-> isToday(date, clock),
     blocks       |-> [i \in 1..Len(dayEvents) |-> Block(dayEvents[i])]]

\* mutant: the week shown starts at currentDate
WeekDays_FromCurrent(date) == eachDayOfInterval(startOfDay(date), endOfWeek(date))

WeekDays(date) == eachDayOfInterval(startOfWeek(date), endOfWeek(date))

-----------------------------------------------------------------------------
(* components/CalendarView.tsx                                             *)

NoCourse == [loaded |-> FALSE, events |-> <<>>]
Course(events) == [loaded |-> TRUE, events |-> events]

\* course.events.map(mapBackendEventToCalendarEvent)
MapEvents(backendEvents) ==
    [i \in 1..Len(backendEvents) |-> mapBackendEventToCalendarEvent(backendEvents[i])]

\* mutant: no "No Events Found" state, an empty list goes to the grid
Render_NoEmptyState(crs, current, v, clock) ==
    LET events == MapEvents(crs.events) IN
    IF ~crs.loaded
    THEN [kind |-> "no-course", cells |-> <<>>]
    ELSE IF v = "month"
    THEN LET days == MonthDays(current) IN
         [kind  |-> "month",
          cells |-> [i \in 1..Len(days) |-> MonthCell(days[i], current, events, clock)]]
    ELSE LET days == WeekDays(current) IN
         [kind  |-> "week",
          cells |-> [i \in 1..Len(days) |-> WeekDay(days[i], events, clock)]]

\* one render, with the clock reading `clock`: the empty states return
\* before the toolbar and the grid
Render(crs, current, v, clock) ==
    LET events == MapEvents(crs.events) IN
    IF ~crs.loaded
    THEN [kind |-> "no-course", cells |-> <<>>]
    ELSE IF Len(events) = 0
    THEN [kind |-> "no-events", cells |-> <<>>]
    ELSE IF v = "month"
    THEN LET days == MonthDays(current) IN
         [kind  |-> "month",
          cells |-> [i \in 1..Len(days) |-> MonthCell(days[i], current, events, clock)]]
    ELSE LET days == WeekDays(current) IN
         [kind  |-> "week",
          cells |-> [i \in 1..Len(days) |-> WeekDay(days[i], events, clock)]]

\* the toolbar, and with it every handler, exists only when a grid is shown
ToolbarShown == rendered.kind \in {"month", "week"}

-----------------------------------------------------------------------------
(* The inputs of the model.                                                *)

\* the longest event list of a course
MaxEvents == 5

\* how many days the user navigates away from today
MaxNavDays == 31

\* UTC-5 and UTC+14
TimeZones == {-5 * 3600, 14 * 3600}

Ev(id, type, start, end) == [id |-> id, type |-> type, start |-> start, end |-> end]

\* the events a parsed syllabus may hold, in the order the backend sends them
Syllabus ==
    << Ev("e1", <<>>,
          Iso(2025, 2, 28, 12, 0, 0, FALSE), EmptyString),
       Ev("e2", <<"T", "u", "t", "o", "r", "i", "a", "l">>,
          NotADate, Null),
       Ev("e3", <<"M", "i", "d", "t", "e", "r", "m">>,
          Iso(2025, 3, 10, 14, 0, 0, TRUE), Iso(2025, 3, 10, 15, 30, 0, TRUE)),
       Ev("e4", <<"F", "i", "n", "a", "l", " ", "P", "r", "o", "j", "e", "c", "t">>,
          Iso(2025, 3, 10, 12, 30, 0, FALSE), Iso(2025, 3, 11, 1, 0, 0, FALSE)),
       Ev("e5", <<"L", "e", "c", "t", "u", "r", "e">>,
          Iso(2025, 3, 10, 9, 0, 30, FALSE), Null),
       Ev("e6", <<"L", "a", "b">>,
          Iso(2025, 3, 10, 0, 31, 0, FALSE), Iso(2025, 3, 10, 0, 30, 0, FALSE)),
       Ev("e7", <<"Q", "U", "I", "Z">>,
          Iso(2025, 3, 10, 8, 15, 0, FALSE), Iso(2025, 3, 10, 8, 44, 59, FALSE)),
       Ev("e8", <<"H", "o", "m", "e", "w", "o", "r", "k">>,
          Iso(2025, 3, 10, 10, 0, 0, FALSE), NotADate),
       Ev("e9", <<"P", "r", "o", "j", "e", "c", "t">>,
          Iso(2025, 3, 11, 9, 0, 0, FALSE), Iso(2025, 3, 11, 9, 45, 0, FALSE)) >>

\* a course holds a run of the syllabus, of MaxEvents events at most
Runs ==
    {run \in (1..Len(Syllabus)) \X (1..Len(Syllabus)) :
        run[1] <= run[2] /\ run[2] - run[1] < MaxEvents}

Courses ==
    {NoCourse, Course(<<>>)} \cup
    {Course(SubSeq(Syllabus, run[1], run[2])) : run \in Runs}

TermDay == [y |-> 2025, m |-> 3, d |-> 10]

\* the day the page is opened and the course it is opened with: any course
\* in the term of the syllabus, the whole start of the syllabus in a leap
\* February and in a February of four weeks
Openings ==
    {[today |-> TermDay, course |-> crs] : crs \in Courses}
    \cup {[today |-> day, course |-> Course(SubSeq(Syllabus, 1, MaxEvents))] :
            day \in {[y |-> 2024, m |-> 2, d |-> 29], [y |-> 2026, m |-> 2, d |-> 10]}}

\* the clock reads 13:45:00 local time
ClockAt(day, zone) ==
    DaysFromCivil(day.y, day.m, day.d) * SecondsPerDay + 13 * 3600 + 45 * 60 - zone

InWindow(date) ==
    LET away == LocalDay(date.v) - LocalDay(startOfToday.v) IN
    -MaxNavDays <= away /\ away <= MaxNavDays

-----------------------------------------------------------------------------
(* App.tsx: the texts and addresses it shows.                              *)

\* a string, as opposed to null
Str(text) == [kind |-> "string", text |-> text]

DEMO_CAL_URL == "embed?src=a01db118...%40group.calendar.google.com"

\* the address of the user's own calendar
EmbedUrl(srcCalendar) == "embed?src=" \o srcCalendar

TooManyFiles == "You can upload up to 2 PDFs; extra files were ignored."
UploadFailed == "Upload failed"
PleaseConnect == "Please connect your Google Calendar first in Step 3."
Synced == "Course events synced to Google Calendar!"
FailedToSync == "Failed to sync: "

\* merged.slice(0, 2)
MaxFiles == 2

\* err?.message ?? fallback
MessageOr(err, fallback) ==
    IF err.message = Null THEN fallback ELSE err.message.text

-----------------------------------------------------------------------------
(* CalendarView as a state machine.  A handler runs `elapsed` seconds      *)
(* after the state before it was rendered; the render that follows it      *)
(* reads the clock at that moment.                                         *)

\* App before anything happened on the page
AppMounted ==
    /\ inputFiles = <<>>
    /\ selectedFiles = <<>>
    /\ appCourse = Null
    /\ loading = FALSE
    /\ error = Null
    /\ isSyncing = FALSE
    /\ syncMessage = Null
    /\ authStatus = [connected |-> FALSE, email |-> Null]
    /\ calendarRefreshKey = 0
    /\ googleCalendarEmbedUrl = DEMO_CAL_URL
    /\ authLoad = "pending"
    /\ uploads = <<>>
    /\ syncs = <<>>
    /\ disconnects = 0
    /\ selectedFile = Null
    /\ selectedFileName = Null
    /\ messages = <<>>
    /\ input = <<>>
    /\ chatLoading = FALSE
    /\ chatError = Null
    /\ chats = <<>>

Init ==
    /\ tz \in TimeZones
    /\ \E opening \in Openings :
          /\ now = ClockAt(opening.today, tz)
          /\ course = opening.course
    /\ currentDate = startOfToday
    /\ view = "week"
    /\ selectedEvent = Null
    /\ rendered = Render(course, currentDate, view, now)
    /\ AppMounted

\* handleNavigate("prev")
NavigatePrevAfter(elapsed) ==
    /\ ToolbarShown
    /\ now' = now + elapsed
    /\ UNCHANGED <<tz, course, view, selectedEvent>>
    /\ currentDate' = IF view = "month"
                      THEN addMonths(currentDate, -1)
                      ELSE addWeeks(currentDate, -1)
    /\ InWindow(currentDate')
    /\ rendered' = Render(course, currentDate', view', now')
    /\ UNCHANGED <<appVars, plannerVars, chatVars>>

\* handleNavigate("next")
NavigateNextAfter(elapsed) ==
    /\ ToolbarShown
    /\ now' = now + elapsed
    /\ UNCHANGED <<tz, course, view, selectedEvent>>
    /\ currentDate' = IF view = "month"
                      THEN addMonths(currentDate, 1)
                      ELSE addWeeks(currentDate, 1)
    /\ InWindow(currentDate')
    /\ rendered' = Render(course, currentDate', view', now')
    /\ UNCHANGED <<appVars, plannerVars, chatVars>>

\* handleNavigate("today")
NavigateTodayAfter(elapsed) ==
    /\ ToolbarShown
    /\ now' = now + elapsed
    /\ UNCHANGED <<tz, course, view, selectedEvent>>
    /\ currentDate' = startOfDay(Num(now'))
    /\ rendered' = Render(course, currentDate', view', now')
    /\ UNCHANGED <<appVars, plannerVars, chatVars>>

\* onViewChange = setView
SetViewAfter(v, elapsed) ==
    /\ ToolbarShown
    /\ now' = now + elapsed
    /\ UNCHANGED <<tz, course, currentDate, selectedEvent>>
    /\ view' = v
    /\ rendered' = Render(course, currentDate', view', now')
    /\ UNCHANGED <<appVars, plannerVars, chatVars>>

\* handleEventClick: a pill or a block is clicked
handleEventClickAfter(event, elapsed) ==
    /\ now' = now + elapsed
    /\ UNCHANGED <<tz, course, currentDate, view>>
    /\ selectedEvent' = event
    /\ rendered' = Render(course, currentDate', view', now')
    /\ UNCHANGED <<appVars, plannerVars, chatVars>>

\* onClose of EventDetailPopup
ClosePopupAfter(elapsed) ==
    /\ ToolbarShown
    /\ selectedEvent # Null
    /\ now' = now + elapsed
    /\ UNCHANGED <<tz, course, currentDate, view>>
    /\ selectedEvent' = Null
    /\ rendered' = Render(course, currentDate', view', now')
    /\ UNCHANGED <<appVars, plannerVars, chatVars>>

\* the calendar with the clock held still and no event clicked
NavigatePrev == NavigatePrevAfter(0)

NavigateNext == NavigateNextAfter(0)

NavigateToday == NavigateTodayAfter(0)

SetView(v) == SetViewAfter(v, 0)

ViewWeek == SetView("week")

ViewMonth == SetView("month")

Next ==
    \/ NavigatePrev
    \/ NavigateNext
    \/ NavigateToday
    \/ ViewWeek
    \/ ViewMonth

Spec == Init /\ [][Next]_vars

-----------------------------------------------------------------------------
(* The calendar the claims are stated against, written down independently  *)
(* of the Date arithmetic above.                                           *)

IsLeapYear(y) == (y % 4 = 0 /\ y % 100 # 0) \/ y % 400 = 0

DaysInMonth(y, m) ==
    IF m = 2 THEN (IF IsLeapYear(y) THEN 29 ELSE 28)
    ELSE IF m \in {4, 6, 9, 11} THEN 30 ELSE 31

\* the local calendar date of a valid Date
CivilOf(date) == LocalCivil(date.v)

\* 0 = Sunday ... 6 = Saturday, counted from Sunday 2025-03-09
WeekdayOf(date) == (LocalDay(date.v) - DaysFromCivil(2025, 3, 9)) % 7

MonthShown == rendered.kind = "month"
WeekShown == rendered.kind = "week"
Cells == rendered.cells

\* each cell is the calendar day after the cell before it
ConsecutiveDays ==
    \A i \in 1..(Len(Cells) - 1) :
        /\ Cells[i + 1].date.v = Cells[i].date.v + SecondsPerDay
        /\ LocalDay(Cells[i + 1].date.v) = LocalDay(Cells[i].date.v) + 1

C2_CurrentMonthCells ==
    MonthShown =>
        LET c == CivilOf(currentDate)
            Flagged(cell) == cell.isCurrentMonth
            flagged == SelectSeq(Cells, Flagged)
        IN  /\ Len(flagged) = DaysInMonth(c.y, c.m)
            /\ \A k \in 1..Len(flagged) :
                  CivilOf(flagged[k].date) = [y |-> c.y, m |-> c.m, d |-> k]
            /\ \A i \in 1..Len(Cells) :
                  ~Cells[i].isCurrentMonth =>
                      <<CivilOf(Cells[i].date).y, CivilOf(Cells[i].date).m>> # <<c.y, c.m>>

\* the leap February of 2024, with padding days before and after it
C2_Witness ==
    /\ MonthShown
    /\ CivilOf(currentDate).y = 2024
    /\ CivilOf(currentDate).m = 2
    /\ Len(SelectSeq(Cells, LAMBDA cell : cell.isCurrentMonth)) = 29
    /\ ~Cells[1].isCurrentMonth
    /\ ~Cells[Len(Cells)].isCurrentMonth

PreviousMonth(c) == IF c.m = 1 THEN <<c.y - 1, 12>> ELSE <<c.y, c.m - 1>>
FollowingMonth(c) == IF c.m = 12 THEN <<c.y + 1, 1>> ELSE <<c.y, c.m + 1>>

\* C3: the month grid starts on a Sunday and ends on a Saturday, holds a
\* multiple of 7 cells, and the cells before the 1st and after the last day
\* of the month are days of the month before and of the month after.
C3_WeekAligned ==
    MonthShown =>
        LET c == CivilOf(currentDate)
            YearMonth(cell) == <<CivilOf(cell.date).y, CivilOf(cell.date).m>>
            first == CHOOSE i \in 1..Len(Cells) : CivilOf(Cells[i].date) = [c EXCEPT !.d = 1]
            last == first + DaysInMonth(c.y, c.m) - 1
        IN  /\ Len(Cells) > 0
            /\ WeekdayOf(Cells[1].date) = 0
            /\ WeekdayOf(Cells[Len(Cells)].date) = 6
            /\ Len(Cells) % 7 = 0
            /\ \E i \in 1..Len(Cells) : CivilOf(Cells[i].date) = [c EXCEPT !.d = 1]
            /\ last <= Len(Cells)
            /\ \A i \in 1..(first - 1) : YearMonth(Cells[i]) = PreviousMonth(c)
            /\ \A i \in (last + 1)..Len(Cells) : YearMonth(Cells[i]) = FollowingMonth(c)

\* a month with days of the month before and of the month after around it
C3_Witness ==
    /\ MonthShown
    /\ CivilOf(Cells[1].date).d > 1
    /\ CivilOf(Cells[Len(Cells)].date).d < 7
    /\ CivilOf(Cells[1].date).m # CivilOf(Cells[Len(Cells)].date).m

-----------------------------------------------------------------------------
(* Events in the month grid.                                               *)

\* the events the views were given
GivenEvents == MapEvents(course.events)

\* the given events whose start is a valid Date on the local day of `date`,
\* in input order
QualifyingOn(date) ==
    LET OnThatDay(event) ==
            /\ ~IsNaN(event.start)
            /\ CivilOf(event.start) = CivilOf(date)
    IN  SelectSeq(GivenEvents, OnThatDay)

PillEvents(cell) == [i \in 1..Len(cell.pills) |-> cell.pills[i].event]

\* C4: an event is listed in a month cell only if its start is a valid
\* Date whose local calendar date is the cell's date, and no event is listed
\* in two different cells.
C4_EventOnItsDay ==
    MonthShown =>
        /\ \A i \in 1..Len(Cells) : \A k \in 1..Len(Cells[i].pills) :
              LET event == Cells[i].pills[k].event IN
              /\ ~IsNaN(event.start)
              /\ CivilOf(event.start) = CivilOf(Cells[i].date)
              /\ \E n \in 1..Len(GivenEvents) : GivenEvents[n] = event
        /\ \A i, j \in 1..Len(Cells) :
              i # j =>
                  \A k \in 1..Len(Cells[i].pills) : \A l \in 1..Len(Cells[j].pills) :
                      Cells[i].pills[k].event.id # Cells[j].pills[l].event.id

\* two cells of one grid list events, one of them a padding cell
C4_Witness ==
    /\ MonthShown
    /\ \E i, j \in 1..Len(Cells) :
          /\ i # j
          /\ Len(Cells[i].pills) > 0
          /\ Len(Cells[j].pills) > 0
          /\ ~Cells[i].isCurrentMonth

\* C5: a month cell with n qualifying events shows all of them and no
\* overflow marker when n <= 3, and the first 3 in input order with the
\* marker "+(n - 3) more" when n > 3.
C5_ThreeAndOverflow ==
    MonthShown =>
        \A i \in 1..Len(Cells) :
            LET qualifying == QualifyingOn(Cells[i].date)
                n == Len(qualifying)
            IN  IF n <= 3
                THEN /\ PillEvents(Cells[i]) = qualifying
                     /\ ~Cells[i].moreShown
                ELSE /\ PillEvents(Cells[i]) = SubSeq(qualifying, 1, 3)
                     /\ Cells[i].moreShown
                     /\ Cells[i].more = n - 3

\* five events on one day: three entries and "+2 more"
C5_Witness ==
    /\ MonthShown
    /\ \E i \in 1..Len(Cells) :
          /\ Len(QualifyingOn(Cells[i].date)) = 5
          /\ Len(Cells[i].pills) = 3
          /\ Cells[i].moreShown
          /\ Cells[i].more = 2

-----------------------------------------------------------------------------
(* The week view.                                                          *)

\* C6: the week view shows exactly 7 consecutive days, from the Sunday on
\* or before currentDate to the following Saturday, and currentDate is one
\* of them.
C6_WeekOfCurrentDate ==
    WeekShown =>
        /\ Len(Cells) = 7
        /\ ConsecutiveDays
        /\ WeekdayOf(Cells[1].date) = 0
        /\ WeekdayOf(Cells[7].date) = 6
        /\ Cells[1].date.v <= currentDate.v
        /\ currentDate.v < Cells[7].date.v + SecondsPerDay
        /\ \E i \in 1..7 : CivilOf(Cells[i].date) = CivilOf(currentDate)

\* currentDate is the Saturday that ends the week shown
C6_Witness ==
    /\ WeekShown
    /\ WeekdayOf(currentDate) = 6
    /\ CivilOf(Cells[7].date) = CivilOf(currentDate)

BlockEvents(cell) == [i \in 1..Len(cell.blocks) |-> cell.blocks[i].event]

BackendEventOf(event) ==
    course.events[CHOOSE n \in 1..Len(course.events) : course.events[n].id = event.id]

\* C8: a block of the week view is exactly 30 px high when the backend
\* event has no end (end is then set to start) and when end <= start; no
\* block has a height that is zero or negative.
C8_MinimumHeight ==
    WeekShown =>
        \A i \in 1..Len(Cells) : \A k \in 1..Len(Cells[i].blocks) :
            LET block == Cells[i].blocks[k]
                start == block.event.start
                end   == block.event.end
            IN  /\ BackendEventOf(block.event).end = Null =>
                      (end = start /\ block.height = Num(30))
                /\ (~IsNaN(end) /\ end.v <= start.v) => block.height = Num(30)
                /\ ~IsNaN(block.height) => block.height.v > 0

\* one day shows an event without end and an event that ends before it starts
C8_Witness ==
    /\ WeekShown
    /\ \E i \in 1..Len(Cells) : \E k, l \in 1..Len(Cells[i].blocks) :
          /\ BackendEventOf(Cells[i].blocks[k].event).end = Null
          /\ Cells[i].blocks[k].height = Num(30)
          /\ ~IsNaN(Cells[i].blocks[l].event.end)
          /\ Cells[i].blocks[l].event.end.v < Cells[i].blocks[l].event.start.v
          /\ Cells[i].blocks[l].height = Num(30)

\* C9: of two events on the same day of the week view, the one that starts
\* earlier is placed no lower than the other.
C9_MonotonicOffset ==
    WeekShown =>
        \A i \in 1..Len(Cells) : \A k, l \in 1..Len(Cells[i].blocks) :
            Cells[i].blocks[k].event.start.v < Cells[i].blocks[l].event.start.v
                => Cells[i].blocks[k].top.v <= Cells[i].blocks[l].top.v

\* an evening event listed before a morning event of the same day, and two
\* events that start within the same minute apart
C9_Witness ==
    /\ WeekShown
    /\ \E i \in 1..Len(Cells) : \E k, l \in 1..Len(Cells[i].blocks) :
          /\ k > l
          /\ Cells[i].blocks[k].event.start.v < Cells[i].blocks[l].event.start.v
          /\ Cells[i].blocks[k].top.v < Cells[i].blocks[l].top.v
          /\ Cells[i].blocks[l].top.v >= 12 * 60

-----------------------------------------------------------------------------
(* The type classifier.                                                    *)

\* every pill or block on screen, with the event it stands for
Shown ==
    IF MonthShown
    THEN UNION {{Cells[i].pills[k] : k \in 1..Len(Cells[i].pills)} : i \in 1..Len(Cells)}
    ELSE IF WeekShown
    THEN UNION {{Cells[i].blocks[k] : k \in 1..Len(Cells[i].blocks)} : i \in 1..Len(Cells)}
    ELSE {}

\* the seven categories of the claim, by the keywords of the two classifiers
Category(type) ==
    LET t == toLowerCase(type) IN
    IF includes(t, <<"l", "e", "c", "t", "u", "r", "e">>) \/ includes(t, <<"c", "l", "a", "s", "s">>)
    THEN "lecture/class"
    ELSE IF includes(t, <<"l", "a", "b">>)
    THEN "lab"
    ELSE IF includes(t, <<"m", "i", "d", "t", "e", "r", "m">>) \/ includes(t, <<"t", "e", "s", "t">>)
    THEN "midterm/test"
    ELSE IF includes(t, <<"f", "i", "n", "a", "l">>) \/ includes(t, <<"e", "x", "a", "m">>)
    THEN "final/exam"
    ELSE IF \/ includes(t, <<"a", "s", "s", "i", "g", "n", "m", "e", "n", "t">>)
            \/ includes(t, <<"h", "o", "m", "e", "w", "o", "r", "k">>)
            \/ includes(t, <<"p", "r", "o", "j", "e", "c", "t">>)
    THEN "assignment/project"
    ELSE IF includes(t, <<"q", "u", "i", "z">>)
    THEN "quiz"
    ELSE "other"

SixColors == {"blue", "orange", "red", "purple", "green", "gray"}

ColorOf(category) ==
    CASE category \in {"lecture/class", "lab"} -> "blue"
      [] category = "midterm/test" -> "orange"
      [] category = "final/exam" -> "red"
      [] category = "assignment/project" -> "purple"
      [] category = "quiz" -> "green"
      [] OTHER -> "gray"

\* the badge getBadgeClasses gives the final/exam and the assignment/project
\* categories
FinalBadge == "bg-red-50 text-red-700 border-red-100"
AssignmentBadge == "bg-green-50 text-green-700 border-green-100"

HasFinal(type) == includes(toLowerCase(type), <<"f", "i", "n", "a", "l">>)
HasProject(type) == includes(toLowerCase(type), <<"p", "r", "o", "j", "e", "c", "t">>)

\* C11 as stated: keywords are matched as case-insensitive substrings, the
\* first rule of the ordered list that matches gives the category, no match
\* gives "other"; a type holding both "final" and "project" is final/exam and
\* a type holding "project" and no keyword of an earlier rule is
\* assignment/project.  Stated of the colour of every event on screen and of
\* the badge of every event of the course.
C11_FirstRuleWins ==
    /\ \A p \in Shown :
          /\ (HasFinal(p.event.type) /\ HasProject(p.event.type)) => p.color = "red"
          /\ (HasProject(p.event.type) /\ Category(p.event.type) = "assignment/project")
                => p.color = ColorOf("assignment/project")
          /\ Category(p.event.type) = "other" => p.color = "gray"
    /\ \A i \in 1..Len(course.events) :
          LET type == course.events[i].type IN
          /\ (HasFinal(type) /\ HasProject(type)) => getBadgeClasses(type) = FinalBadge
          /\ (HasProject(type) /\ Category(type) = "assignment/project")
                => getBadgeClasses(type) = AssignmentBadge

-----------------------------------------------------------------------------
(* The midterm of 2025-03-10T14:00:00Z.                                    *)

Midterm == Syllabus[3]

MidtermGiven == \E i \in 1..Len(course.events) : course.events[i] = Midterm

March2025Shown ==
    /\ MonthShown
    /\ CivilOf(currentDate).y = 2025
    /\ CivilOf(currentDate).m = 3

\* the cells that show the midterm
MidtermCells ==
    {i \in 1..Len(Cells) :
        \E k \in 1..Len(Cells[i].pills) : Cells[i].pills[k].event.id = Midterm.id}

MidtermColors ==
    UNION {{Cells[i].pills[k].color :
               k \in {j \in 1..Len(Cells[i].pills) : Cells[i].pills[j].event.id = Midterm.id}} :
           i \in MidtermCells}

\* C12 as stated: on the month grid of March 2025 the midterm is in the cell
\* dated 2025-03-10 and in no other, in every time zone, and is classified
\* midterm/test.
C12_OnMarchTenth ==
    (March2025Shown /\ MidtermGiven) =>
        /\ MidtermCells # {}
        /\ \A i \in MidtermCells : CivilOf(Cells[i].date) = [y |-> 2025, m |-> 3, d |-> 10]
        /\ MidtermColors = {"orange"}

\* C12 amended: the midterm is in exactly one cell, the one of the local
\* calendar date of 14:00 UTC on 2025-03-10: the 10th in a zone behind
\* UTC+10, the 11th in a zone at UTC+10 or ahead of it; it is classified
\* midterm/test (orange).
C12_OnLocalDayOfStart ==
    (March2025Shown /\ MidtermGiven) =>
        /\ Cardinality(MidtermCells) = 1
        /\ \A i \in MidtermCells :
              CivilOf(Cells[i].date) =
                  [y |-> 2025, m |-> 3, d |-> IF tz >= 10 * 3600 THEN 11 ELSE 10]
        /\ MidtermColors = {"orange"}

\* at UTC+14 the midterm is in the cell of the 11th
C12_Witness ==
    /\ March2025Shown
    /\ tz = 14 * 3600
    /\ \E i \in MidtermCells : CivilOf(Cells[i].date) = [y |-> 2025, m |-> 3, d |-> 11]
    /\ MidtermColors = {"orange"}

-----------------------------------------------------------------------------
(* Events whose start or end is not a date.                                *)

GridShown == MonthShown \/ WeekShown

\* the events of the course whose start or end did not parse
InvalidEvents ==
    {i \in 1..Len(GivenEvents) :
        IsNaN(GivenEvents[i].start) \/ IsNaN(GivenEvents[i].end)}

\* C13 as stated: an event whose start or end is invalid is in no day of the
\* month grid or the week grid, and what is rendered carries the number of
\* the events left out for that reason.
C13_InvalidExcludedAndCounted ==
    GridShown =>
        /\ \A p \in Shown : ~IsNaN(p.event.start) /\ ~IsNaN(p.event.end)
        /\ "excluded" \in DOMAIN rendered
        /\ rendered.excluded = Cardinality(InvalidEvents)

\* C14 as stated: whatever the events (invalid start, invalid end with a
\* valid start, end before start, unknown type), the month grid and the week
\* grid are built without an exception, and every block of the week grid has
\* a numeric top and a numeric height.
C14_NoExceptionAndNumeric ==
    /\ \A p \in Shown : ~p.time.throws
    /\ WeekShown => \A p \in Shown : ~IsNaN(p.top) /\ ~IsNaN(p.height)

-----------------------------------------------------------------------------
(* A course without events.                                                *)

EmptyCourseLoaded == course.loaded /\ Len(course.events) = 0

\* C15 as stated: with a loaded course whose event list is empty the calendar
\* still shows its month or week grid, with no event in any cell.
C15_EmptyGrid ==
    EmptyCourseLoaded => (GridShown /\ Len(Cells) > 0 /\ Shown = {})

\* C15 amended: with a loaded course whose event list is empty CalendarView
\* shows the "No Events Found" state: no toolbar, no grid, no cell.
C15_NoEventsFound ==
    EmptyCourseLoaded =>
        (rendered.kind = "no-events" /\ ~ToolbarShown /\ Cells = <<>>)

\* the page opened with a course of no events
C15_Witness ==
    /\ EmptyCourseLoaded
    /\ rendered.kind = "no-events"
    /\ view = "week"
    /\ currentDate = startOfToday

-----------------------------------------------------------------------------
(* The calendar while the clock runs: the user clicks events, closes the   *)
(* popup and navigates, and between two of these the clock may pass from   *)
(* the afternoon to the late evening and on to the next morning.           *)

\* how many times the clock moves on
MaxTicks == 2

\* how many days the user navigates away from today while the clock runs
ClockNavDays == 14

TickSeconds == 10 * 3600

Elapsed == {0, TickSeconds}

ClockCourse == Course(SubSeq(Syllabus, 3, 4))

ClockRuns(elapsed) ==
    /\ now + elapsed <= ClockAt(TermDay, tz) + MaxTicks * TickSeconds
    /\ LocalDay(currentDate.v) - LocalDay(ClockAt(TermDay, tz)) \in -ClockNavDays..ClockNavDays

InitClock ==
    /\ tz \in TimeZones
    /\ now = ClockAt(TermDay, tz)
    /\ course = ClockCourse
    /\ currentDate = startOfToday
    /\ view = "week"
    /\ selectedEvent = Null
    /\ rendered = Render(course, currentDate, view, now)
    /\ AppMounted

LaterNavigatePrev ==
    \E elapsed \in Elapsed : ClockRuns(elapsed) /\ NavigatePrevAfter(elapsed)

LaterNavigateNext ==
    \E elapsed \in Elapsed : ClockRuns(elapsed) /\ NavigateNextAfter(elapsed)

LaterNavigateToday ==
    \E elapsed \in Elapsed : ClockRuns(elapsed) /\ NavigateTodayAfter(elapsed)

LaterViewWeek ==
    \E elapsed \in Elapsed : ClockRuns(elapsed) /\ SetViewAfter("week", elapsed)

LaterViewMonth ==
    \E elapsed \in Elapsed : ClockRuns(elapsed) /\ SetViewAfter("month", elapsed)

LaterEventClick ==
    \E elapsed \in Elapsed : \E p \in Shown :
        ClockRuns(elapsed) /\ handleEventClickAfter(p.event, elapsed)

LaterClosePopup ==
    \E elapsed \in Elapsed : ClockRuns(elapsed) /\ ClosePopupAfter(elapsed)

NextClock ==
    \/ LaterNavigatePrev
    \/ LaterNavigateNext
    \/ LaterNavigateToday
    \/ LaterViewWeek
    \/ LaterViewMonth
    \/ LaterEventClick
    \/ LaterClosePopup

SpecClock == InitClock /\ [][NextClock]_vars

\* the three inputs of the layout are what they were
SameLayoutInputs ==
    /\ course' = course
    /\ currentDate' = currentDate
    /\ view' = view

\* C16 as stated: the layout is a function of (events, currentDate, view):
\* a pass with the same three inputs as the pass before gives the same
\* cells, flags ("is today" included) and placements, and no pass changes
\* the events it was given.
C16_PureOfThreeInputs ==
    [][/\ SameLayoutInputs => rendered' = rendered
       /\ course' = course]_vars

\* C16 amended: the layout is a function of (events, currentDate, view), of
\* the local calendar day of the clock and of the time zone: a pass with the
\* same three inputs on the same local day gives the same output, and no
\* pass changes the events it was given.
C16_PureGivenTheDay ==
    [][/\ (SameLayoutInputs /\ tz' = tz /\ LocalDay(now)' = LocalDay(now))
            => rendered' = rendered
       /\ course' = course]_vars

\* the week of 2025-03-10 rendered again after midnight, by a click on an
\* event: the same events, currentDate and view, and "today" has moved from
\* the 10th to the 11th
C16_Witness ==
    /\ WeekShown
    /\ selectedEvent # Null
    /\ CivilOf(currentDate) = TermDay
    /\ CivilOf(Num(now)) = [TermDay EXCEPT !.d = 11]
    /\ \E i \in 1..Len(Cells) :
          /\ CivilOf(Cells[i].date) = TermDay
          /\ ~Cells[i].isCurrentDay
          /\ Cells[i + 1].isCurrentDay

-----------------------------------------------------------------------------
(* App.tsx as a state machine: the file inputs, the upload, the sync and   *)
(* the Google account.  A request in flight carries the response the       *)
(* backend will give it.                                                   *)

\* how many syncs and disconnects are started
MaxRefreshes == 2

\* how many files one change of a file input brings
MaxPick == 2

Files == {"a.pdf", "b.pdf"}

\* a FileList: files of the disk, none twice
Picks ==
    UNION {{pick \in [1..n -> Files] : \A i, j \in 1..n : pick[i] = pick[j] => i = j} :
           n \in 1..MaxPick}

\* the BackendCourse the backend parses from a file
ParsedCourse(file) == [kind |-> "course", id |-> file]

\* what uploadSyllabus throws: `Upload failed: ${detail}` when the response
\* is not ok, and the TypeError of fetch when the backend is not reached
UploadErrors ==
    {[message |-> Str("Upload failed: Only PDF files are supported")],
     [message |-> Str("Failed to fetch")]}

UploadResponses(file) ==
    {[ok |-> TRUE, course |-> ParsedCourse(file)]}
    \cup {[ok |-> FALSE, thrown |-> err] : err \in UploadErrors}

\* what syncCourseToGoogle throws
SyncErrors == {[message |-> Str("Not authenticated with Google")]}

SyncResponses == {[ok |-> TRUE]} \cup {[ok |-> FALSE, thrown |-> err] : err \in SyncErrors}

\* what /api/auth/status answers
AuthAnswers ==
    {[connected |-> FALSE, email |-> Null],
     [connected |-> TRUE, email |-> Str("me@example.com")],
     [connected |-> TRUE, email |-> Null]}

InitApp ==
    /\ tz = -5 * 3600
    /\ now = ClockAt(TermDay, tz)
    /\ course = NoCourse
    /\ currentDate = startOfToday
    /\ view = "week"
    /\ selectedEvent = Null
    /\ rendered = Render(course, currentDate, view, now)
    /\ AppMounted

\* the effect of the mount: the answer of /api/auth/status arrives
AuthStatusLoaded(data) ==
    /\ authLoad = "pending"
    /\ authLoad' = "done"
    /\ authStatus' = data
    /\ googleCalendarEmbedUrl' =
          IF data.connected
          THEN EmbedUrl(IF data.email = Null THEN "primary" ELSE data.email.text)
          ELSE DEMO_CAL_URL
    /\ UNCHANGED <<inputFiles, selectedFiles, appCourse, loading, error, isSyncing,
                   syncMessage, calendarRefreshKey, uploads, syncs, disconnects>>
    /\ UNCHANGED <<calendarVars, plannerVars, chatVars>>

\* the effect of the mount: the fetch or res.json() throws
AuthStatusFailed ==
    /\ authLoad = "pending"
    /\ authLoad' = "done"
    /\ authStatus' = [connected |-> FALSE, email |-> Null]
    /\ googleCalendarEmbedUrl' = DEMO_CAL_URL
    /\ UNCHANGED <<inputFiles, selectedFiles, appCourse, loading, error, isSyncing,
                   syncMessage, calendarRefreshKey, uploads, syncs, disconnects>>
    /\ UNCHANGED <<calendarVars, plannerVars, chatVars>>

\* mutant: the course shown stays
handleFileChange_KeepsCourse(incoming) ==
    LET merged  == selectedFiles \o incoming
        limited == SliceTo(merged, MaxFiles)
    IN  /\ Len(incoming) > 0
        /\ inputFiles' = incoming
        /\ selectedFiles' = limited
        /\ error' = IF Len(merged) > MaxFiles THEN Str(TooManyFiles) ELSE Null
        /\ appCourse' = appCourse
        /\ syncMessage' = Null
        /\ UNCHANGED <<loading, isSyncing, authStatus, calendarRefreshKey,
                       googleCalendarEmbedUrl, authLoad, uploads, syncs, disconnects>>
        /\ UNCHANGED <<calendarVars, plannerVars, chatVars>>

\* mutant: the two files picked last are kept
handleFileChange_LatestTwo(incoming) ==
    LET merged  == selectedFiles \o incoming
        limited == SubSeq(merged, Max(Len(merged) - MaxFiles, 0) + 1, Len(merged))
    IN  /\ Len(incoming) > 0
        /\ inputFiles' = incoming
        /\ selectedFiles' = limited
        /\ error' = IF Len(merged) > MaxFiles THEN Str(TooManyFiles) ELSE Null
        /\ appCourse' = Null
        /\ syncMessage' = Null
        /\ UNCHANGED <<loading, isSyncing, authStatus, calendarRefreshKey,
                       googleCalendarEmbedUrl, authLoad, uploads, syncs, disconnects>>
        /\ UNCHANGED <<calendarVars, plannerVars, chatVars>>

\* handleFileChange: a file input changes to the FileList `incoming`
handleFileChange(incoming) ==
    LET merged  == selectedFiles \o incoming
        limited == SliceTo(merged, MaxFiles)
    IN  /\ Len(incoming) > 0
        /\ inputFiles' = incoming
        /\ selectedFiles' = limited
        /\ error' = IF Len(merged) > MaxFiles THEN Str(TooManyFiles) ELSE Null
        /\ appCourse' = Null
        /\ syncMessage' = Null
        /\ UNCHANGED <<loading, isSyncing, authStatus, calendarRefreshKey,
                       googleCalendarEmbedUrl, authLoad, uploads, syncs, disconnects>>
        /\ UNCHANGED <<calendarVars, plannerVars, chatVars>>

\* removeFile(index): the Remove button of the file at position index + 1
removeFile(index) ==
    /\ index \in 0..(Len(selectedFiles) - 1)
    /\ selectedFiles' =
          [i \in 1..(Len(selectedFiles) - 1) |->
              IF i <= index THEN selectedFiles[i] ELSE selectedFiles[i + 1]]
    /\ error' = Null
    /\ UNCHANGED <<inputFiles, appCourse, loading, isSyncing, syncMessage, authStatus,
                   calendarRefreshKey, googleCalendarEmbedUrl, authLoad, uploads, syncs,
                   disconnects>>
    /\ UNCHANGED <<calendarVars, plannerVars, chatVars>>

\* mutant: the Upload button works while an upload is in progress
handleUpload_WhileLoading(response) ==
    /\ Len(selectedFiles) > 0
    /\ Len(uploads) < MaxFiles
    /\ loading' = TRUE
    /\ error' = Null
    /\ syncMessage' = Null
    /\ uploads' = Append(uploads, [file     |-> selectedFiles[1],
                                   picked   |-> inputFiles,
                                   response |-> response])
    /\ UNCHANGED <<inputFiles, selectedFiles, appCourse, isSyncing, authStatus,
                   calendarRefreshKey, googleCalendarEmbedUrl, authLoad, syncs, disconnects>>
    /\ UNCHANGED <<calendarVars, plannerVars, chatVars>>

\* handleUpload up to its await: the Upload button.  The request is noted
\* with the FileList the file inputs held when it was sent.
handleUpload(response) ==
    /\ Len(selectedFiles) > 0
    /\ ~loading
    /\ loading' = TRUE
    /\ error' = Null
    /\ syncMessage' = Null
    /\ uploads' = Append(uploads, [file     |-> selectedFiles[1],
                                   picked   |-> inputFiles,
                                   response |-> response])
    /\ UNCHANGED <<inputFiles, selectedFiles, appCourse, isSyncing, authStatus,
                   calendarRefreshKey, googleCalendarEmbedUrl, authLoad, syncs, disconnects>>
    /\ UNCHANGED <<calendarVars, plannerVars, chatVars>>

\* mutant: loading is only reset after a successful upload
UploadSettles_NoFinally ==
    /\ Len(uploads) > 0
    /\ LET response == Head(uploads).response IN
        /\ appCourse' = IF response.ok THEN response.course ELSE appCourse
        /\ error' = IF response.ok THEN error
                    ELSE Str(MessageOr(response.thrown, UploadFailed))
        /\ loading' = IF response.ok THEN FALSE ELSE loading
    /\ uploads' = Tail(uploads)
    /\ UNCHANGED <<inputFiles, selectedFiles, isSyncing, syncMessage, authStatus,
                   calendarRefreshKey, googleCalendarEmbedUrl, authLoad, syncs, disconnects>>
    /\ UNCHANGED <<calendarVars, plannerVars, chatVars>>

\* handleUpload after its await: try, catch and finally
UploadSettles ==
    /\ Len(uploads) > 0
    /\ LET response == Head(uploads).response IN
        /\ appCourse' = IF response.ok THEN response.course ELSE appCourse
        /\ error' = IF response.ok THEN error
                    ELSE Str(MessageOr(response.thrown, UploadFailed))
        /\ loading' = FALSE
    /\ uploads' = Tail(uploads)
    /\ UNCHANGED <<inputFiles, selectedFiles, isSyncing, syncMessage, authStatus,
                   calendarRefreshKey, googleCalendarEmbedUrl, authLoad, syncs, disconnects>>
    /\ UNCHANGED <<calendarVars, plannerVars, chatVars>>

\* the refresh key stays within MaxRefreshes
RefreshesLeft == calendarRefreshKey + Len(syncs) + disconnects < MaxRefreshes

\* mutant: the request is sent whether or not Google is connected
handleSync_NoConnectTest(response) ==
    /\ appCourse # Null
    /\ ~isSyncing
    /\ IF FALSE
       THEN /\ syncMessage' = Str(PleaseConnect)
            /\ UNCHANGED <<isSyncing, syncs>>
       ELSE /\ RefreshesLeft
            /\ isSyncing' = TRUE
            /\ syncMessage' = Null
            /\ syncs' = Append(syncs, [courseId |-> appCourse.id, response |-> response])
    /\ UNCHANGED <<inputFiles, selectedFiles, appCourse, loading, error, authStatus,
                   calendarRefreshKey, googleCalendarEmbedUrl, authLoad, uploads, disconnects>>
    /\ UNCHANGED <<calendarVars, plannerVars, chatVars>>

\* handleSync up to its await: the Sync button, shown with a course
handleSync(response) ==
    /\ appCourse # Null
    /\ ~isSyncing
    /\ IF ~authStatus.connected
       THEN /\ syncMessage' = Str(PleaseConnect)
            /\ UNCHANGED <<isSyncing, syncs>>
       ELSE /\ RefreshesLeft
            /\ isSyncing' = TRUE
            /\ syncMessage' = Null
            /\ syncs' = Append(syncs, [courseId |-> appCourse.id, response |-> response])
    /\ UNCHANGED <<inputFiles, selectedFiles, appCourse, loading, error, authStatus,
                   calendarRefreshKey, googleCalendarEmbedUrl, authLoad, uploads, disconnects>>
    /\ UNCHANGED <<calendarVars, plannerVars, chatVars>>

\* mutant: the calendar is refreshed after a failed sync as well
SyncSettles_AlwaysRefreshes ==
    /\ Len(syncs) > 0
    /\ LET response == Head(syncs).response IN
        /\ syncMessage' = IF response.ok THEN Str(Synced)
                          ELSE Str(FailedToSync \o MessageOr(response.thrown, "Unknown error"))
        /\ calendarRefreshKey' = calendarRefreshKey + 1
    /\ isSyncing' = FALSE
    /\ syncs' = Tail(syncs)
    /\ UNCHANGED <<inputFiles, selectedFiles, appCourse, loading, error, authStatus,
                   googleCalendarEmbedUrl, authLoad, uploads, disconnects>>
    /\ UNCHANGED <<calendarVars, plannerVars, chatVars>>

\* handleSync after its await: try, catch and finally
SyncSettles ==
    /\ Len(syncs) > 0
    /\ LET response == Head(syncs).response IN
        /\ syncMessage' = IF response.ok THEN Str(Synced)
                          ELSE Str(FailedToSync \o MessageOr(response.thrown, "Unknown error"))
        /\ calendarRefreshKey' = IF response.ok THEN calendarRefreshKey + 1
                                 ELSE calendarRefreshKey
    /\ isSyncing' = FALSE
    /\ syncs' = Tail(syncs)
    /\ UNCHANGED <<inputFiles, selectedFiles, appCourse, loading, error, authStatus,
                   googleCalendarEmbedUrl, authLoad, uploads, disconnects>>
    /\ UNCHANGED <<calendarVars, plannerVars, chatVars>>

\* handleDisconnectGoogle up to its await: the Disconnect button, shown
\* while Google is connected
handleDisconnectGoogle ==
    /\ authStatus.connected
    /\ RefreshesLeft
    /\ disconnects' = disconnects + 1
    /\ UNCHANGED <<inputFiles, selectedFiles, appCourse, loading, error, isSyncing,
                   syncMessage, authStatus, calendarRefreshKey, googleCalendarEmbedUrl,
                   authLoad, uploads, syncs>>
    /\ UNCHANGED <<calendarVars, plannerVars, chatVars>>

\* mutant: the address of the user's calendar stays after a disconnect
DisconnectSucceeds_KeepsUrl ==
    /\ disconnects > 0
    /\ disconnects' = disconnects - 1
    /\ authStatus' = [connected |-> FALSE, email |-> Null]
    /\ calendarRefreshKey' = calendarRefreshKey + 1
    /\ UNCHANGED <<inputFiles, selectedFiles, appCourse, loading, error, isSyncing,
                   syncMessage, googleCalendarEmbedUrl, authLoad, uploads, syncs>>
    /\ UNCHANGED <<calendarVars, plannerVars, chatVars>>

\* handleDisconnectGoogle after its await, disconnectGoogle() resolved
DisconnectSucceeds ==
    /\ disconnects > 0
    /\ disconnects' = disconnects - 1
    /\ authStatus' = [connected |-> FALSE, email |-> Null]
    /\ googleCalendarEmbedUrl' = DEMO_CAL_URL
    /\ calendarRefreshKey' = calendarRefreshKey + 1
    /\ UNCHANGED <<inputFiles, selectedFiles, appCourse, loading, error, isSyncing,
                   syncMessage, authLoad, uploads, syncs>>
    /\ UNCHANGED <<calendarVars, plannerVars, chatVars>>

\* handleDisconnectGoogle after its await, disconnectGoogle() threw: ignored
DisconnectFails ==
    /\ disconnects > 0
    /\ disconnects' = disconnects - 1
    /\ UNCHANGED <<inputFiles, selectedFiles, appCourse, loading, error, isSyncing,
                   syncMessage, authStatus, calendarRefreshKey, googleCalendarEmbedUrl,
                   authLoad, uploads, syncs>>
    /\ UNCHANGED <<calendarVars, plannerVars, chatVars>>

AuthStatusArrives == \E data \in AuthAnswers : AuthStatusLoaded(data)

FilesPicked == \E incoming \in Picks : handleFileChange(incoming)

FileRemoved == \E index \in 0..(MaxFiles - 1) : removeFile(index)

UploadClicked ==
    /\ Len(selectedFiles) > 0
    /\ \E response \in UploadResponses(selectedFiles[1]) : handleUpload(response)

SyncClicked == \E response \in SyncResponses : handleSync(response)

NextApp ==
    \/ AuthStatusArrives
    \/ AuthStatusFailed
    \/ FilesPicked
    \/ FileRemoved
    \/ UploadClicked
    \/ UploadSettles
    \/ SyncClicked
    \/ SyncSettles
    \/ handleDisconnectGoogle
    \/ DisconnectSucceeds
    \/ DisconnectFails

SpecApp == InitApp /\ [][NextApp]_vars

-----------------------------------------------------------------------------
(* The upload.                                                             *)

\* a step in which a file input changed
FilesPickedStep ==
    \/ inputFiles' # inputFiles
    \/ Len(selectedFiles') > Len(selectedFiles)

\* a step in which handleUpload went on after its await
UploadSettledStep == Len(uploads) > 0 /\ uploads' = Tail(uploads)

UploadSucceededStep == UploadSettledStep /\ Head(uploads).response.ok

UploadFailedStep == UploadSettledStep /\ ~Head(uploads).response.ok

\* C17: a successful upload makes the course parsed from the uploaded file
\* the course shown, whatever was shown before; every pick of files through
\* a file input sets course to null and clears the sync message.
C17_UploadReplacesPickDiscards ==
    [][/\ UploadSucceededStep => appCourse' = ParsedCourse(Head(uploads).file)
       /\ FilesPickedStep => (appCourse' = Null /\ syncMessage' = Null)]_vars

\* a course was uploaded and synced to Google, and then files were picked:
\* no course is shown and no upload has been started since
C17_Witness ==
    /\ appCourse = Null
    /\ syncMessage = Null
    /\ calendarRefreshKey > 0
    /\ authStatus.connected
    /\ Len(selectedFiles) = MaxFiles
    /\ ~loading

\* C18: selectedFiles never holds more than 2 files; when a pick brings the
\* total above 2, the first 2 of the earlier selection followed by the pick
\* are kept, the rest is dropped and error is the "up to 2 PDFs" text.
C18_AtMostTwoFiles ==
    /\ [](Len(selectedFiles) <= 2)
    /\ [][(FilesPickedStep /\ Len(selectedFiles) + Len(inputFiles') > 2) =>
            /\ selectedFiles' = SubSeq(selectedFiles \o inputFiles', 1, 2)
            /\ error' = Str("You can upload up to 2 PDFs; extra files were ignored.")]_vars

\* one file was selected and two more were picked: the one selected and the
\* first of the two picked are kept
C18_Witness ==
    /\ Len(inputFiles) = 2
    /\ selectedFiles = <<inputFiles[2], inputFiles[1]>>
    /\ error = Str(TooManyFiles)

-----------------------------------------------------------------------------
(* The sync.                                                               *)

\* a step in which a sync request is sent
SyncRequestedStep == Len(syncs') > Len(syncs)

\* a step in which the "please connect" text appears
PleaseConnectStep ==
    /\ syncMessage' = Str("Please connect your Google Calendar first in Step 3.")
    /\ syncMessage' # syncMessage

\* C19: a sync request is only sent while Google is connected, a course is
\* shown and no sync is in progress; without a connection handleSync shows
\* the "please connect" text and leaves isSyncing, course and
\* calendarRefreshKey as they are.
C19_NoSyncUnlessConnected ==
    [][/\ SyncRequestedStep =>
            (authStatus.connected /\ appCourse # Null /\ ~isSyncing /\ syncs = <<>>)
       /\ PleaseConnectStep =>
            /\ ~authStatus.connected
            /\ UNCHANGED <<isSyncing, appCourse, calendarRefreshKey, syncs>>]_vars

\* Sync was clicked with a course shown and Google not connected
C19_Witness ==
    /\ syncMessage = Str(PleaseConnect)
    /\ appCourse # Null
    /\ ~authStatus.connected
    /\ ~isSyncing
    /\ syncs = <<>>
    /\ calendarRefreshKey = 0

\* C20: when an upload fails, error becomes the message of what was thrown
\* ("Upload failed" if it has none), loading becomes false and the course
\* shown stays what it was.
C20_FailedUploadShown ==
    [][UploadFailedStep =>
          LET thrown == Head(uploads).response.thrown IN
          /\ error' = IF thrown.message = Null THEN Str("Upload failed") ELSE thrown.message
          /\ error' # Null
          /\ loading' = FALSE
          /\ appCourse' = appCourse]_vars

\* a second upload failed while the course of the first is shown
C20_Witness ==
    /\ error \in {err.message : err \in UploadErrors}
    /\ ~loading
    /\ uploads = <<>>
    /\ appCourse # Null

\* the upload at the head of the queue was in flight when files were picked
PickedSinceSent == Len(uploads) > 0 /\ Head(uploads).picked # inputFiles

\* C21 as stated: once a pick of files has set course to null, an upload that
\* was in flight at the pick never makes its result the course shown: the
\* course stays null until an upload started after the pick succeeds.
C21_StaleUploadNotInstalled ==
    [][(UploadSucceededStep /\ PickedSinceSent) => appCourse' = Null]_vars

\* every upload request is answered, or its fetch fails: the promise that
\* handleUpload awaits settles
FairSpecApp == SpecApp /\ WF_vars(UploadSettles)

\* a step in which an upload request is sent
UploadSentStep == Len(uploads') > Len(uploads)

\* C22: at most one upload request is outstanding; a request is only sent
\* with a file selected and loading false, and the file sent is the first
\* of selectedFiles; loading is true exactly while a request is outstanding,
\* and every upload started brings loading back to false.
C22_OneUploadAtATime ==
    /\ [](Len(uploads) <= 1 /\ (loading <=> Len(uploads) = 1))
    /\ [][UploadSentStep =>
            /\ Len(selectedFiles) > 0
            /\ ~loading
            /\ uploads' = <<uploads'[1]>>
            /\ uploads'[1].file = selectedFiles[1]]_vars
    /\ (loading ~> ~loading)

\* an upload of the first of two selected files is outstanding
C22_Witness ==
    /\ loading
    /\ Len(uploads) = 1
    /\ Len(selectedFiles) = 2
    /\ selectedFiles[1] # selectedFiles[2]
    /\ uploads[1].file = selectedFiles[1]

-----------------------------------------------------------------------------
(* The App that hands its course to CalendarView: FileUpload takes a file  *)
(* from the file input or from a drop and calls handleFileSelect, which    *)
(* uploads it at once.  Several uploads may be outstanding and their       *)
(* responses arrive in any order.  The toast of App and the highlight of   *)
(* the drop zone (isDragging) are not modelled.                            *)

\* how many uploadSyllabus calls are outstanding at once
MaxInFlight == 2

\* how far from today the calendar of this App is navigated, in days
PlannerNavDays == 7

\* the files at hand; file.type of the first two is "application/pdf"
PlannerFiles == {"a.pdf", "b.pdf", "notes.txt"}

IsPdf(file) == file \in {"a.pdf", "b.pdf"}

\* the BackendCourse the backend parses from a file
OutlineOf(file) ==
    IF file = "a.pdf"
    THEN Course(SubSeq(Syllabus, 3, 4))
    ELSE Course(SubSeq(Syllabus, 9, 9))

\* the backend parses PDFs and rejects the rest; any call may fail
PlannerResponses(file) ==
    (IF IsPdf(file) THEN {[ok |-> TRUE, course |-> OutlineOf(file)]} ELSE {})
    \cup {[ok |-> FALSE, thrown |-> [message |-> Str("Upload failed: Bad PDF")]]}

InitPlanner ==
    /\ tz = -5 * 3600
    /\ now = ClockAt(TermDay, tz)
    /\ course = NoCourse
    /\ currentDate = startOfToday
    /\ view = "week"
    /\ selectedEvent = Null
    /\ rendered = Render(course, currentDate, view, now)
    /\ AppMounted

\* handleFileSelect up to its await; CalendarView renders again with the
\* props it had
handleFileSelect(file, response) ==
    /\ Len(uploads) < MaxInFlight
    /\ selectedFile' = Str(file)
    /\ loading' = TRUE
    /\ error' = Null
    /\ uploads' = Append(uploads, [file |-> file, response |-> response])
    /\ UNCHANGED <<inputFiles, selectedFiles, appCourse, isSyncing, syncMessage, authStatus,
                   calendarRefreshKey, googleCalendarEmbedUrl, authLoad, syncs, disconnects>>
    /\ UNCHANGED <<calendarVars, chatVars>>

\* FileUpload.handleDrop: the first file dropped, if it is a PDF
handleDrop(file) ==
    IF IsPdf(file)
    THEN /\ selectedFileName' = Str(file)
         /\ \E response \in PlannerResponses(file) : handleFileSelect(file, response)
    ELSE UNCHANGED vars

\* FileUpload.handleFileChange: the input is disabled while loading
FileInputChange(file) ==
    /\ ~loading
    /\ selectedFileName' = Str(file)
    /\ \E response \in PlannerResponses(file) : handleFileSelect(file, response)

\* uploads without its i-th element
Without(queue, i) == SubSeq(queue, 1, i - 1) \o SubSeq(queue, i + 1, Len(queue))

\* the handler C23 describes: only the response of the upload started last is
\* taken, and loading stays true while an upload is outstanding
FileSelectSettles_LatestOnly(i) ==
    /\ i \in 1..Len(uploads)
    /\ LET response == uploads[i].response
           latest == i = Len(uploads) IN
        /\ course' = IF response.ok /\ latest THEN response.course ELSE course
        /\ error' = IF response.ok \/ ~latest THEN error
                    ELSE Str(MessageOr(response.thrown, UploadFailed))
        /\ loading' = (Len(uploads) > 1)
    /\ uploads' = IF i = Len(uploads) THEN <<>> ELSE Without(uploads, i)
    /\ rendered' = Render(course', currentDate, view, now)
    /\ UNCHANGED <<tz, now, currentDate, view, selectedEvent>>
    /\ UNCHANGED <<inputFiles, selectedFiles, appCourse, isSyncing, syncMessage, authStatus,
                   calendarRefreshKey, googleCalendarEmbedUrl, authLoad, syncs, disconnects>>
    /\ UNCHANGED <<plannerVars, chatVars>>

\* handleFileSelect after its await, for the i-th outstanding upload: try,
\* catch and finally, and the render of CalendarView with the new course
FileSelectSettles(i) ==
    /\ i \in 1..Len(uploads)
    /\ LET response == uploads[i].response IN
        /\ course' = IF response.ok THEN response.course ELSE course
        /\ error' = IF response.ok THEN error
                    ELSE Str(MessageOr(response.thrown, UploadFailed))
        /\ loading' = FALSE
    /\ uploads' = Without(uploads, i)
    /\ rendered' = Render(course', currentDate, view, now)
    /\ UNCHANGED <<tz, now, currentDate, view, selectedEvent>>
    /\ UNCHANGED <<inputFiles, selectedFiles, appCourse, isSyncing, syncMessage, authStatus,
                   calendarRefreshKey, googleCalendarEmbedUrl, authLoad, syncs, disconnects>>
    /\ UNCHANGED <<plannerVars, chatVars>>

PlannerInWindow ==
    LET away == LocalDay(currentDate'.v) - LocalDay(startOfToday.v) IN
    -PlannerNavDays <= away /\ away <= PlannerNavDays

FileDropped == \E file \in PlannerFiles : handleDrop(file)

FileChosen == \E file \in PlannerFiles : FileInputChange(file)

UploadAnswered == \E i \in 1..MaxInFlight : FileSelectSettles(i)

PlannerPrev == NavigatePrev /\ PlannerInWindow

PlannerNext == NavigateNext /\ PlannerInWindow

EventClicked == \E p \in Shown : handleEventClickAfter(p.event, 0)

PopupClosed == ClosePopupAfter(0)

NextPlanner ==
    \/ FileDropped
    \/ FileChosen
    \/ UploadAnswered
    \/ PlannerPrev
    \/ PlannerNext
    \/ NavigateToday
    \/ ViewWeek
    \/ ViewMonth
    \/ EventClicked
    \/ PopupClosed

SpecPlanner == InitPlanner /\ [][NextPlanner]_vars

\* a step in which the response of an upload is taken
FileSelectSettledStep == Len(uploads') < Len(uploads)

\* C23 as stated: loading is false only when no upload is outstanding, and
\* when the last outstanding upload completes and changes the course shown,
\* the course becomes the parse result of the file selected last.
C23_LatestFileWins ==
    /\ [](~loading => uploads = <<>>)
    /\ [][(FileSelectSettledStep /\ uploads' = <<>> /\ course' # course)
            => course' = OutlineOf(selectedFile.text)]_vars

\* a step in which the response of a sync request is taken
SyncSettledStep == Len(syncs') < Len(syncs)

SyncSucceededStep == SyncSettledStep /\ Head(syncs).response.ok

SyncFailedStep == SyncSettledStep /\ ~Head(syncs).response.ok

\* a step in which a disconnect request is answered or fails
DisconnectSettledStep == disconnects' < disconnects

\* C24: calendarRefreshKey goes up by one with a successful sync and with a
\* successful disconnect and changes in no other step; a failed sync sets
\* syncMessage to "Failed to sync: " and the message of the error and keeps
\* the key; after either outcome of a sync isSyncing is false.
C24_RefreshKeySteps ==
    /\ [][SyncSucceededStep =>
            /\ calendarRefreshKey' = calendarRefreshKey + 1
            /\ syncMessage' = Str(Synced)
            /\ isSyncing' = FALSE]_vars
    /\ [][SyncFailedStep =>
            /\ calendarRefreshKey' = calendarRefreshKey
            /\ syncMessage' =
                 Str("Failed to sync: " \o Head(syncs).response.thrown.message.text)
            /\ isSyncing' = FALSE]_vars
    /\ [][DisconnectSettledStep =>
            \/ /\ calendarRefreshKey' = calendarRefreshKey + 1
               /\ authStatus' = [connected |-> FALSE, email |-> Null]
            \/ UNCHANGED <<calendarRefreshKey, authStatus, googleCalendarEmbedUrl>>]_vars
    /\ [][calendarRefreshKey' # calendarRefreshKey =>
            /\ calendarRefreshKey' = calendarRefreshKey + 1
            /\ SyncSucceededStep \/ DisconnectSettledStep]_vars

\* a sync failed after the calendar had been refreshed once
C24_Witness ==
    /\ calendarRefreshKey = 1
    /\ syncMessage = Str("Failed to sync: Not authenticated with Google")
    /\ ~isSyncing
    /\ syncs = <<>>

\* C25: whenever authStatus.connected is false the embedded calendar is the
\* demo calendar, and a failed disconnect changes neither authStatus nor
\* the address.
C25_DemoUnlessConnected ==
    /\ [](~authStatus.connected => googleCalendarEmbedUrl = DEMO_CAL_URL)
    /\ [][(DisconnectSettledStep /\ calendarRefreshKey' = calendarRefreshKey)
            => UNCHANGED <<authStatus, googleCalendarEmbedUrl>>]_vars

\* disconnected again after the user's own calendar had been shown
C25_Witness ==
    /\ authLoad = "done"
    /\ ~authStatus.connected
    /\ calendarRefreshKey > 0
    /\ googleCalendarEmbedUrl = DEMO_CAL_URL


-----------------------------------------------------------------------------
(* CalendarAssistant.tsx: the chat.  Texts are sequences of characters.    *)

\* how many messages the chat log holds
MaxMessages == 4

\* String.prototype.trim: white space goes from both ends
WhiteSpace == {" ", "\n", "\t"}

RECURSIVE TrimStart(_)
TrimStart(text) ==
    IF text # <<>> /\ Head(text) \in WhiteSpace THEN TrimStart(Tail(text)) ELSE text

RECURSIVE TrimEnd(_)
TrimEnd(text) ==
    IF text # <<>> /\ text[Len(text)] \in WhiteSpace
    THEN TrimEnd(SubSeq(text, 1, Len(text) - 1))
    ELSE text

Trim(text) == TrimEnd(TrimStart(text))

\* what the user leaves in the textarea
Typed ==
    {<<>>, <<" ">>, <<"\n", " ">>, <<"h", "i">>, <<" ", "h", "i", "\n">>,
     <<"g", "o", " ", "o", "n">>}

\* data.reply of /api/chat/calendar
Replies == {<<"o", "k">>, <<"h", "i">>}

\* what chatWithCalendar throws: `Chat failed: ${text}`, or what fetch throws
ChatErrors ==
    {[message |-> Str("Chat failed: Internal Server Error")],
     [message |-> Str("Failed to fetch")]}

ChatResponses ==
    {[ok |-> TRUE, reply |-> reply] : reply \in Replies}
    \cup {[ok |-> FALSE, thrown |-> err] : err \in ChatErrors}

UserMessage(content) == [role |-> "user", content |-> content]

AssistantMessage(content) == [role |-> "assistant", content |-> content]

InitChat ==
    /\ tz = -5 * 3600
    /\ now = ClockAt(TermDay, tz)
    /\ course = NoCourse
    /\ currentDate = startOfToday
    /\ view = "week"
    /\ selectedEvent = Null
    /\ rendered = Render(course, currentDate, view, now)
    /\ AppMounted

\* onChange of the textarea
SetInput(text) ==
    /\ input' = text
    /\ UNCHANGED <<messages, chatLoading, chatError, chats>>
    /\ UNCHANGED <<calendarVars, appVars, plannerVars>>

\* mutant: send does not look at loading
send_WhileLoading(response) ==
    LET trimmed == Trim(input) IN
    IF trimmed = <<>>
    THEN UNCHANGED vars
    ELSE LET updatedMessages == Append(messages, UserMessage(trimmed)) IN
         /\ Len(updatedMessages) < MaxMessages
         /\ messages' = updatedMessages
         /\ input' = <<>>
         /\ chatLoading' = TRUE
         /\ chatError' = Null
         /\ chats' = Append(chats, [messages |-> updatedMessages, response |-> response])
         /\ UNCHANGED <<calendarVars, appVars, plannerVars>>

\* send up to its await
send(response) ==
    LET trimmed == Trim(input) IN
    IF trimmed = <<>> \/ chatLoading
    THEN UNCHANGED vars
    ELSE LET updatedMessages == Append(messages, UserMessage(trimmed)) IN
         /\ Len(updatedMessages) < MaxMessages
         /\ messages' = updatedMessages
         /\ input' = <<>>
         /\ chatLoading' = TRUE
         /\ chatError' = Null
         /\ chats' = Append(chats, [messages |-> updatedMessages, response |-> response])
         /\ UNCHANGED <<calendarVars, appVars, plannerVars>>

\* onKeyDown: Enter without Shift sends, every other key is left to the
\* textarea
onKeyDown(key, shiftKey, response) ==
    IF key = "Enter" /\ ~shiftKey
    THEN send(response)
    ELSE UNCHANGED vars

\* mutant: a failed send takes the user's message back
ChatSettles_TakesBack ==
    /\ Len(chats) > 0
    /\ LET request == Head(chats) IN
        /\ messages' = IF request.response.ok
                       THEN Append(request.messages,
                                   AssistantMessage(request.response.reply))
                       ELSE SubSeq(messages, 1, Len(messages) - 1)
        /\ chatError' = IF request.response.ok THEN chatError
                        ELSE Str(MessageOr(request.response.thrown, "Chat request failed"))
    /\ chatLoading' = FALSE
    /\ chats' = Tail(chats)
    /\ UNCHANGED input
    /\ UNCHANGED <<calendarVars, appVars, plannerVars>>

\* send after its await: try, catch and finally.  The reply is appended to
\* the list the request was sent with.
ChatSettles ==
    /\ Len(chats) > 0
    /\ LET request == Head(chats) IN
        /\ messages' = IF request.response.ok
                       THEN Append(request.messages,
                                   AssistantMessage(request.response.reply))
                       ELSE messages
        /\ chatError' = IF request.response.ok THEN chatError
                        ELSE Str(MessageOr(request.response.thrown, "Chat request failed"))
    /\ chatLoading' = FALSE
    /\ chats' = Tail(chats)
    /\ UNCHANGED input
    /\ UNCHANGED <<calendarVars, appVars, plannerVars>>

InputChanged == \E text \in Typed : SetInput(text)

\* the Send button, disabled while loading and while the input trims to
\* nothing
SendClicked ==
    /\ ~(chatLoading \/ Trim(input) = <<>>)
    /\ \E response \in ChatResponses : send(response)

KeyPressed ==
    \E key \in {"Enter", "a"} : \E shiftKey \in BOOLEAN : \E response \in ChatResponses :
        onKeyDown(key, shiftKey, response)

NextChat ==
    \/ InputChanged
    \/ SendClicked
    \/ KeyPressed
    \/ ChatSettles

SpecChat == InitChat /\ [][NextChat]_vars

\* a step in which a chat request is sent
ChatSentStep == Len(chats') > Len(chats)

\* a step in which the response of a chat request is taken
ChatSettledStep == Len(chats') < Len(chats)

\* C26: a chat request is only sent when the input trims to something and no
\* request is in flight; at most one request is outstanding, chatLoading is
\* true exactly then, and the request carries the messages so far followed
\* by the user's message, the trimmed input.
C26_OneChatRequest ==
    /\ [](Len(chats) <= 1 /\ (chatLoading <=> Len(chats) = 1))
    /\ [][ChatSentStep =>
            /\ Trim(input) # <<>>
            /\ ~chatLoading
            /\ chats'[1].messages = Append(messages, UserMessage(Trim(input)))]_vars
    /\ [][(chatLoading \/ Trim(input) = <<>>) =>
            UNCHANGED <<messages, chats, chatLoading, chatError>> \/ ChatSettledStep]_vars

\* a request with two earlier messages is outstanding and the user has typed
\* again
C26_Witness ==
    /\ chatLoading
    /\ Len(chats) = 1
    /\ Len(chats[1].messages) = 3
    /\ chats[1].messages[3].role = "user"
    /\ Trim(input) # <<>>

IsPrefix(short, long) ==
    /\ Len(short) <= Len(long)
    /\ SubSeq(long, 1, Len(short)) = short

\* C27: the chat log only grows at its end: sending appends the user's
\* message, a reply appends one assistant message after it, a failure
\* appends nothing and sets the error; an assistant message always follows
\* a user message.
C27_AppendOnly ==
    /\ [][IsPrefix(messages, messages')]_vars
    /\ [][ChatSentStep =>
            /\ Len(messages') = Len(messages) + 1
            /\ messages'[Len(messages')] = UserMessage(Trim(input))]_vars
    /\ [][(ChatSettledStep /\ Head(chats).response.ok) =>
            /\ messages # <<>>
            /\ messages[Len(messages)].role = "user"
            /\ messages' = Append(messages, AssistantMessage(Head(chats).response.reply))]_vars
    /\ [][(ChatSettledStep /\ ~Head(chats).response.ok) =>
            /\ messages' = messages
            /\ chatError' = Head(chats).response.thrown.message]_vars
    /\ [](\A i \in 1..Len(messages) :
            messages[i].role = "assistant" => i > 1 /\ messages[i - 1].role = "user")

\* a reply came to the second message after the first one had failed
C27_Witness ==
    /\ Len(messages) = 3
    /\ messages[1].role = "user"
    /\ messages[2].role = "user"
    /\ messages[3].role = "assistant"
    /\ ~chatLoading

-----------------------------------------------------------------------------
(* CalendarView: navigation there and back.                                *)

\* the date handleNavigate sets from date `prev` in view `v`, with the clock
\* reading `clock`
handleNavigate(direction, prev, v, clock) ==
    IF direction = "today"
    THEN startOfDay(Num(clock))
    ELSE IF direction = "prev"
    THEN (IF v = "month" THEN addMonths(prev, -1) ELSE addWeeks(prev, -1))
    ELSE (IF v = "month" THEN addMonths(prev, 1) ELSE addWeeks(prev, 1))

\* "next" and then "prev" from currentDate, without a change of view
NextThenPrev ==
    handleNavigate("prev", handleNavigate("next", currentDate, view, now), view, now)

PrevThenNext ==
    handleNavigate("next", handleNavigate("prev", currentDate, view, now), view, now)

\* every step that changes currentDate is handleNavigate, and a change of
\* the view keeps currentDate; "today" gives the start of today
NavigationSteps ==
    /\ [][currentDate' # currentDate =>
            /\ view' = view
            /\ \E direction \in {"prev", "next", "today"} :
                  currentDate' = handleNavigate(direction, currentDate, view, now')]_vars
    /\ [][view' # view => currentDate' = currentDate]_vars
    /\ [](handleNavigate("today", currentDate, view, now) = startOfToday)

\* C28 as stated: in week mode and in month mode alike, "next" then "prev"
\* and "prev" then "next" give currentDate back; "today" gives the start of
\* today and a change of view keeps currentDate.
C28_ThereAndBack ==
    /\ [](NextThenPrev = currentDate /\ PrevThenNext = currentDate)
    /\ NavigationSteps

\* the day of currentDate's month that the way over a neighbouring month
\* (`amount` months away) comes back to
DayBackFrom(amount) ==
    LET c  == CivilOf(currentDate)
        mi == c.y * 12 + (c.m - 1) + amount
        n  == DaysInMonth(mi \div 12, (mi % 12) + 1)
    IN  [y |-> c.y, m |-> c.m, d |-> IF c.d > n THEN n ELSE c.d]

\* C28, amended: in week mode the way there and back gives currentDate
\* back; in month mode it gives the same month back, on the same day unless
\* the neighbouring month is too short for it, and then on the day of that
\* month's length; days up to the 28th always come back.
C28_BackUpToMonthLength ==
    /\ [](view = "week" => NextThenPrev = currentDate /\ PrevThenNext = currentDate)
    /\ [](view = "month" =>
            /\ CivilOf(NextThenPrev) = DayBackFrom(1)
            /\ CivilOf(PrevThenNext) = DayBackFrom(-1)
            /\ NextThenPrev = startOfDay(NextThenPrev)
            /\ (CivilOf(currentDate).d <= 28 =>
                  NextThenPrev = currentDate /\ PrevThenNext = currentDate))
    /\ NavigationSteps

\* March 28th in month view with today March 10th: reached only from March
\* 31st over February
C28_Witness ==
    /\ CivilOf(startOfToday) = TermDay
    /\ view = "month"
    /\ CivilOf(currentDate) = [y |-> 2025, m |-> 3, d |-> 28]

-----------------------------------------------------------------------------
(* CalendarView under the App that replaces its course.                    *)

\* EventDetailPopup is rendered: an event is selected and the grid is shown
PopupShown == ToolbarShown /\ selectedEvent # Null

\* the events CalendarView makes of the course it is given
EventsOfCourse ==
    {mapBackendEventToCalendarEvent(course.events[i]) : i \in 1..Len(course.events)}

\* C29 as stated: whenever the detail popup is shown, the selected event is
\* one of the events of the course displayed, whatever uploads, navigation
\* and changes of view came before.
C29_PopupOfCourseShown ==
    [](PopupShown => selectedEvent \in EventsOfCourse)

=============================================================================
